---- MODULE Spec2Model ----
(***************************************************************************)
(* A model of frazercomputing/db (upper-io-db):                            *)
(*   - internal/sqladapter/exql/hash.go   the per-fragment fingerprint slot *)
(*   - postgresql/database.go             Open/open, Tx, NewDatabaseTx      *)
(*   - mssql/collection.go                table.Insert (IDENTITY_INSERT)    *)
(* Each part has its own specification (SpecHashSeq, SpecHashConc, ...);    *)
(* the variables of the other parts stay as Init left them.                 *)
(***************************************************************************)
EXTENDS Integers, Sequences, FiniteSets, TLC

(***************************************************************************)
(* Bounds of the model.                                                    *)
(***************************************************************************)
\* Longest fragment content (number of structural elements).
MaxLen == 2
\* Threads that call Hash.
NThreads == 2
\* Attempts WaitForConnection makes before it gives up (its retry budget).
RetryBudget == 3
\* Open calls made on one session.
MaxOpens == 2
\* Writes a transaction body performs.
MaxWrites == 2
\* Callers of table.Insert.
NInserters == 2
\* Longest argument slice handed to ConvertValues.
MaxArgs == 2
\* Longest compiled statement text (number of tokens).
MaxTokens == 3
\* Clones made of one session, and of its clones.
MaxClones == 3

(***************************************************************************)
(* exql/hash.go: fragments and their hash slot.                            *)
(***************************************************************************)
\* Two fragment instances, each embedding its own `hash` struct.
Frags == {1, 2}

\* reflect.TypeOf(i).String() of the fragment kinds used.
Kinds == {"*exql.Column", "*exql.Where"}

\* The structural elements a fragment's content is made of.
Elems == {1, 2}

\* Structural content of a fragment: an ordered list of elements.
RECURSIVE SeqsUpTo(_)
SeqsUpTo(n) ==
  IF n = 0 THEN {<< >>}
  ELSE LET S == SeqsUpTo(n - 1)
       IN  S \cup {Append(s, x) : s \in {q \in S : Len(q) = n - 1}, x \in Elems}

Contents == SeqsUpTo(MaxLen)

\* Radix of the structural hash: one more than the largest element.
HashBase == Cardinality(Elems) + 1

\* cache.Hash's deep value hash (hashstructure): order-sensitive, a function of
\* the content alone; positional so that distinct contents hash differently.
RECURSIVE DeepHash(_)
DeepHash(c) ==
  IF c = << >> THEN 1
  ELSE DeepHash(SubSeq(c, 1, Len(c) - 1)) * HashBase + c[Len(c)]

\* cache.Hash(i): the deep hash printed in decimal.
CacheHash(c) == ToString(DeepHash(c))

\* A fingerprint that also depends on which instance is hashed (its address).
ComputeByIdentity(f, k, c) == k \o ":" \o ToString(f) \o "@" \o CacheHash(c)

\* hash.go:19  s := reflect.TypeOf(i).String() + ":" + cache.Hash(i)
\* f is the instance the argument i points to; the code reads only its type
\* and its content.
Compute(f, k, c) == k \o ":" \o CacheHash(c)

\* Section 4.2 of the specification: fingerprint = kind-identifier +
\* deep-content-hash(fragment).
Fingerprint(k, c) == k \o ":" \o CacheHash(c)

\* Storing what was loaded instead of what was computed.
StoreArgLoaded(v, s) == v.s

\* hash.go:20  the argument of h.v.Store: the computed s (v is the loaded value)
StoreArg(v, s) == s

\* atomic.Value: nothing stored yet (Load returns nil), or a stored string.
NoValue == [set |-> FALSE, s |-> ""]
StoredStr(s) == [set |-> TRUE, s |-> s]

\* A slot that is never taken as populated: every call computes.
IsHitNever(v) == FALSE

\* hash.go:16  if r, ok := v.(string); ok && r != ""
IsHit(v) == v.set /\ v.s # ""

\* Reset that leaves the slot as it is.
ResetKeeps(old) == old

\* hash.go:25  h.v.Store("")
ResetValue(old) == StoredStr("")

HThreads == 1..NThreads

VARIABLES
  kind,      \* kind[f]: the fragment's Go type name
  content,   \* content[f]: the fragment's current structural content
  slot,      \* slot[f]: the atomic.Value h.v of the fragment
  hpc,       \* hpc[t]: position of thread t inside Hash
  hfrag,     \* hfrag[t]: the fragment thread t is hashing
  hv,        \* hv[t]: what h.v.Load() returned (line 15)
  hs,        \* hs[t]: the computed s (line 19)
  hret,      \* hret[t]: the value Hash returned
  hmut,      \* history, per fragment: the last mutation and whether Reset followed
  hcase,     \* history, per call: what hmut[f] was when the call began
  hfirst     \* history, per fragment: the first value returned since the last Reset

hashVars == <<kind, content, slot, hpc, hfrag, hv, hs, hret, hmut, hcase, hfirst>>

\* No mutation recorded yet.
NoMut == [mutated |-> FALSE, pre |-> "", reset |-> FALSE]

\* Fragments are constructed with any kind and content; their slot is the zero
\* atomic.Value.
HashInit ==
  /\ kind \in [Frags -> Kinds]
  /\ content \in [Frags -> Contents]
  /\ slot = [f \in Frags |-> NoValue]
  /\ hpc = [t \in HThreads |-> "idle"]
  /\ hfrag = [t \in HThreads |-> 1]
  /\ hv = [t \in HThreads |-> NoValue]
  /\ hs = [t \in HThreads |-> ""]
  /\ hret = [t \in HThreads |-> ""]
  /\ hmut = [f \in Frags |-> NoMut]
  /\ hcase = [t \in HThreads |-> NoMut]
  /\ hfirst = [f \in Frags |-> ""]

\* History: the first value returned for fragment f since its last Reset.
FirstAfter(f, r) == [hfirst EXCEPT ![f] = IF hfirst[f] = "" THEN r ELSE hfirst[f]]

\* History: a result returned for fragment f before the fragment was mutated
\* or reset no longer belongs to the case recorded for its call.
CasesAfterChange(f) ==
  [t \in HThreads |->
     IF hfrag[t] = f /\ hpc[t] \in {"idle", "returned"} THEN NoMut ELSE hcase[t]]

\* hash.go:15  v := h.v.Load()   (the call begins, on fragment f)
HashLoad(t, f) ==
  /\ hpc[t] \in {"idle", "returned"}
  /\ hpc' = [hpc EXCEPT ![t] = "loaded"]
  /\ hfrag' = [hfrag EXCEPT ![t] = f]
  /\ hv' = [hv EXCEPT ![t] = slot[f]]
  /\ hs' = [hs EXCEPT ![t] = ""]
  /\ hret' = [hret EXCEPT ![t] = ""]
  /\ hcase' = [hcase EXCEPT ![t] = hmut[f]]
  /\ UNCHANGED <<kind, content, slot, hmut, hfirst>>

\* hash.go:16-17  the slot held a non-empty string: return it
HashHit(t) ==
  /\ hpc[t] = "loaded"
  /\ IsHit(hv[t])
  /\ hret' = [hret EXCEPT ![t] = hv[t].s]
  /\ hpc' = [hpc EXCEPT ![t] = "returned"]
  /\ hv' = [hv EXCEPT ![t] = NoValue]
  /\ hfirst' = FirstAfter(hfrag[t], hv[t].s)
  /\ UNCHANGED <<kind, content, slot, hfrag, hs, hmut, hcase>>

\* hash.go:19  compute s from the argument's type and current content
HashCompute(t) ==
  /\ hpc[t] = "loaded"
  /\ ~IsHit(hv[t])
  /\ hs' = [hs EXCEPT ![t] = Compute(hfrag[t], kind[hfrag[t]], content[hfrag[t]])]
  /\ hpc' = [hpc EXCEPT ![t] = "computed"]
  /\ UNCHANGED <<kind, content, slot, hfrag, hv, hret, hmut, hcase, hfirst>>

\* hash.go:20  h.v.Store(s)
HashStore(t) ==
  /\ hpc[t] = "computed"
  /\ slot' = [slot EXCEPT ![hfrag[t]] = StoredStr(StoreArg(hv[t], hs[t]))]
  /\ hpc' = [hpc EXCEPT ![t] = "stored"]
  /\ UNCHANGED <<kind, content, hfrag, hv, hs, hret, hmut, hcase, hfirst>>

\* hash.go:21  return s
HashReturn(t) ==
  /\ hpc[t] = "stored"
  /\ hret' = [hret EXCEPT ![t] = hs[t]]
  /\ hpc' = [hpc EXCEPT ![t] = "returned"]
  /\ hv' = [hv EXCEPT ![t] = NoValue]
  /\ hs' = [hs EXCEPT ![t] = ""]
  /\ hfirst' = FirstAfter(hfrag[t], hs[t])
  /\ UNCHANGED <<kind, content, slot, hfrag, hmut, hcase>>

\* hash.go:24-26  Reset
Reset(f) ==
  /\ slot' = [slot EXCEPT ![f] = ResetValue(slot[f])]
  /\ hmut' = [hmut EXCEPT ![f].reset = hmut[f].mutated]
  /\ hcase' = CasesAfterChange(f)
  /\ hfirst' = [hfirst EXCEPT ![f] = ""]
  /\ UNCHANGED <<kind, content, hpc, hfrag, hv, hs, hret>>

\* The embedding builder changes the fragment's content in place (for example
\* appends a condition); hash.go is not involved.
Mutate(f, c) ==
  /\ c # content[f]
  /\ content' = [content EXCEPT ![f] = c]
  /\ hmut' = [hmut EXCEPT ![f] =
                [mutated |-> TRUE, pre |-> slot[f].s, reset |-> FALSE]]
  /\ hcase' = CasesAfterChange(f)
  /\ UNCHANGED <<kind, slot, hpc, hfrag, hv, hs, hret, hfirst>>

\* Thread t is between calls.
Between(t) == hpc[t] \in {"idle", "returned"}


(***************************************************************************)
(* postgresql/database.go: Open and open.                                  *)
(***************************************************************************)
\* db.ConnectionURL values: none (nil) or one of two settings.
NilURL == "nil"
URLs == {"urlA", "urlB"}

\* A connect function that does not look at BindSession's result.
OpenConnFnIgnoresBind(sqlOpenOk, bindSessionOk) ==
  IF sqlOpenOk THEN "nil" ELSE "err"

\* database.go:121-130  connFn of open: sql.Open, then BindSession
OpenConnFn(sqlOpenOk, bindSessionOk) ==
  IF sqlOpenOk
  THEN IF bindSessionOk THEN "nil" ELSE "err"
  ELSE "err"

\* Open that goes on to connect with nil settings.
OpenRejectsNever(connURLArg) == FALSE

\* database.go:74  if connURL == nil
OpenRejects(connURLArg) == connURLArg = NilURL

\* database.go:132-136  open returns WaitForConnection's error, or nil
OpenResult(waitErr) == IF waitErr # "nil" THEN waitErr ELSE "nil"

\* WaitForConnection (sqladapter): invoke connectFn again after a failure
\* while the retry budget lasts.
WaitRetries(n) == n < RetryBudget

VARIABLES
  connURL,   \* d.connURL
  base,      \* d.BaseDatabase / d.SQLBuilder: 0 unbound, n bound by the n-th Open
  sess,      \* whether the BaseDatabase holds a bound native session
  opc,       \* position inside Open/open
  oarg,      \* Open's argument
  oattempts, \* invocations of connFn by the current Open call
  ofailures, \* history: attempts of this call on which the backend failed
  owait,     \* WaitForConnection's result ("none" while it runs)
  oerr,      \* Open's result ("none" until it returns)
  ocalls,    \* Open calls so far
  opre       \* history: connURL, base, sess when the current call began

openVars == <<connURL, base, sess, opc, oarg, oattempts, ofailures, owait, oerr,
              ocalls, opre>>

\* database.go:61-65  newDatabase(nil): no settings, nothing bound
OpenInit ==
  /\ connURL = NilURL
  /\ base = 0
  /\ sess = FALSE
  /\ opc = "idle"
  /\ oarg = NilURL
  /\ oattempts = 0
  /\ ofailures = 0
  /\ owait = "none"
  /\ oerr = "none"
  /\ ocalls = 0
  /\ opre = [url |-> NilURL, base |-> 0, sess |-> FALSE]

\* database.go:73  Open(connURL) is called
OpenCall(u) ==
  /\ opc \in {"idle", "returned"}
  /\ ocalls < MaxOpens
  /\ ocalls' = ocalls + 1
  /\ oarg' = u
  /\ opc' = "called"
  /\ oattempts' = 0
  /\ ofailures' = 0
  /\ owait' = "none"
  /\ oerr' = "none"
  /\ opre' = [url |-> connURL, base |-> base, sess |-> sess]
  /\ UNCHANGED <<connURL, base, sess>>

\* database.go:74-76  nil settings: return db.ErrMissingConnURL
OpenMissingURL ==
  /\ opc = "called"
  /\ OpenRejects(oarg)
  /\ oerr' = "ErrMissingConnURL"
  /\ opc' = "returned"
  /\ UNCHANGED <<connURL, base, sess, oarg, oattempts, ofailures, owait, ocalls, opre>>

\* database.go:77  d.connURL = connURL
OpenStore ==
  /\ opc = "called"
  /\ ~OpenRejects(oarg)
  /\ connURL' = oarg
  /\ opc' = "stored"
  /\ UNCHANGED <<base, sess, oarg, oattempts, ofailures, owait, oerr, ocalls, opre>>

\* database.go:116-119  bind a new BaseDatabase and SQLBuilder (no session yet)
OpenBind ==
  /\ opc = "stored"
  /\ base' = ocalls
  /\ sess' = FALSE
  /\ opc' = "waiting"
  /\ UNCHANGED <<connURL, oarg, oattempts, ofailures, owait, oerr, ocalls, opre>>

\* database.go:132 with 121-130  WaitForConnection invokes connFn once; the
\* backend lets sql.Open and BindSession succeed or fail
OpenAttempt(sqlOpenOk, bindSessionOk) ==
  /\ opc = "waiting"
  /\ owait = "none"
  /\ WaitRetries(oattempts)
  /\ oattempts' = oattempts + 1
  /\ sess' = (sqlOpenOk /\ bindSessionOk)
  /\ ofailures' = IF sqlOpenOk /\ bindSessionOk THEN ofailures ELSE ofailures + 1
  /\ owait' = IF OpenConnFn(sqlOpenOk, bindSessionOk) = "nil" THEN "nil" ELSE "none"
  /\ UNCHANGED <<connURL, base, opc, oarg, oerr, ocalls, opre>>

\* WaitForConnection gives up: the retry budget is spent
OpenGiveUp ==
  /\ opc = "waiting"
  /\ owait = "none"
  /\ ~WaitRetries(oattempts)
  /\ owait' = "ErrGivingUp"
  /\ UNCHANGED <<connURL, base, sess, opc, oarg, oattempts, ofailures, oerr, ocalls, opre>>

\* database.go:132-136 and 78  open, and so Open, return
OpenReturn ==
  /\ opc = "waiting"
  /\ owait # "none"
  /\ oerr' = OpenResult(owait)
  /\ opc' = "returned"
  /\ UNCHANGED <<connURL, base, sess, oarg, oattempts, ofailures, owait, ocalls, opre>>

(***************************************************************************)
(* postgresql/database.go: Tx, NewTx, NewDatabaseTx; sqladapter.RunTx.     *)
(***************************************************************************)
\* The backend's rows: each key holds a value.
Keys == {"k1", "k2"}
Vals == {0, 1}

\* The two sessions involved: the one Tx is called on, and its clone.
Sessions == {"orig", "clone"}

\* Binding the new transaction to the session Tx was called on.
BindTargetOrig == "orig"

\* database.go:250  clone.BindTx(ctx, sqlTx): the clone gets the transaction
BindTarget == "clone"

\* database.go:248  compat.BeginTx(clone.BaseDatabase.Session(), ...): the
\* native transaction is begun on the clone's session
BeginSession == "clone"

\* An unlock that is skipped when NewDatabaseTx returns an error.
UnlockOnSuccessOnly(held, err) == IF err = "nil" THEN FALSE ELSE held

\* database.go:245  defer clone.mu.Unlock(): the guard is released when
\* NewDatabaseTx returns, whatever it returns
DeferredUnlock(held, err) == FALSE

\* A connect function that does not look at BindTx's result.
TxConnFnIgnoresBind(beginOk, bindTxOk) == IF beginOk THEN "nil" ELSE "err"

\* database.go:247-253  connFn of NewDatabaseTx: BeginTx, then BindTx
TxConnFn(beginOk, bindTxOk) ==
  IF beginOk
  THEN IF bindTxOk THEN "nil" ELSE "err"
  ELSE "err"

\* RunTx (sqladapter): commit when fn returned no error, roll back otherwise,
\* also when fn panicked.
RunTxClose(fnResult) == IF fnResult = "nil" THEN "commit" ELSE "rollback"

VARIABLES
  committed, \* the backend's committed rows
  txview,    \* the rows as the open native transaction sees them
  ntx,       \* the native transaction: "none", "open", "committed", "rolledback"
  ntxSess,   \* the session the native transaction was begun on ("none" without)
  boundTx,   \* boundTx[s]: session s has the native transaction bound
  cloneMu,   \* clone.mu is held
  orphans,   \* native transactions begun by this call and then dropped unbound
  tpc,       \* position inside Tx
  tattempts, \* invocations of connFn by NewDatabaseTx
  handle,    \* NewDatabaseTx returned a transaction handle
  nwrites,   \* writes the body has made
  fnres,     \* how the body ended: "none", "nil", "err", "panic"
  terr,      \* what Tx returned ("none" until then; "panic" when it unwinds)
  closes,    \* Commit and Rollback calls made by RunTx in this call
  tpre       \* history: the committed rows when Tx was called

txVars == <<committed, txview, ntx, ntxSess, boundTx, cloneMu, orphans, tpc,
            tattempts, handle, nwrites, fnres, terr, closes, tpre>>

NoRows == [k \in Keys |-> 0]

TxInit ==
  /\ committed = NoRows
  /\ txview = NoRows
  /\ ntx = "none"
  /\ ntxSess = "none"
  /\ boundTx = [s \in Sessions |-> FALSE]
  /\ cloneMu = FALSE
  /\ orphans = 0
  /\ tpc = "idle"
  /\ tattempts = 0
  /\ handle = FALSE
  /\ nwrites = 0
  /\ fnres = "none"
  /\ terr = "none"
  /\ closes = [commit |-> 0, rollback |-> 0]
  /\ tpre = NoRows

\* database.go:234-236  Tx -> RunTx -> NewTx (82-91) -> NewDatabaseTx
TxCall ==
  /\ tpc \in {"idle", "returned"}
  /\ tpc' = "cloning"
  /\ txview' = committed
  /\ ntx' = "none"
  /\ ntxSess' = "none"
  /\ boundTx' = [s \in Sessions |-> FALSE]
  /\ orphans' = 0
  /\ tattempts' = 0
  /\ handle' = FALSE
  /\ nwrites' = 0
  /\ fnres' = "none"
  /\ terr' = "none"
  /\ closes' = [commit |-> 0, rollback |-> 0]
  /\ tpre' = committed
  /\ UNCHANGED <<committed, cloneMu>>

\* database.go:240-243  clone fails: NewDatabaseTx, NewTx (87-89) and RunTx
\* return the error
TxCloneFails ==
  /\ tpc = "cloning"
  /\ terr' = "err"
  /\ tpc' = "returned"
  /\ UNCHANGED <<committed, txview, ntx, ntxSess, boundTx, cloneMu, orphans, tattempts,
                 handle, nwrites, fnres, closes, tpre>>

\* database.go:240, 244-245  clone made; clone.mu.Lock()
TxCloneLock ==
  /\ tpc = "cloning"
  /\ cloneMu' = TRUE
  /\ tpc' = "waiting"
  /\ UNCHANGED <<committed, txview, ntx, ntxSess, boundTx, orphans, tattempts, handle,
                 nwrites, fnres, terr, closes, tpre>>

\* database.go:255 with 247-253  WaitForConnection invokes connFn once: BeginTx
\* on the clone's session, then BindTx.  On success NewDatabaseTx unlocks and
\* returns the handle (259), NewTx wraps it (90) and RunTx calls fn.
TxAttempt(beginOk, bindTxOk) ==
  /\ tpc = "waiting"
  /\ WaitRetries(tattempts)
  /\ tattempts' = tattempts + 1
  /\ IF TxConnFn(beginOk, bindTxOk) = "nil"
     THEN /\ ntx' = IF beginOk THEN "open" ELSE ntx
          /\ ntxSess' = IF beginOk THEN BeginSession ELSE ntxSess
          /\ boundTx' = [boundTx EXCEPT ![BindTarget] = beginOk /\ bindTxOk]
          /\ txview' = committed
          /\ handle' = TRUE
          /\ cloneMu' = DeferredUnlock(cloneMu, "nil")
          /\ tpc' = "fn"
          /\ orphans' = IF beginOk /\ ~bindTxOk THEN orphans + 1 ELSE orphans
     ELSE /\ orphans' = IF beginOk THEN orphans + 1 ELSE orphans
          /\ UNCHANGED <<ntx, ntxSess, boundTx, txview, handle, cloneMu, tpc>>
  /\ UNCHANGED <<committed, nwrites, fnres, terr, closes, tpre>>

\* database.go:255-257  WaitForConnection gave up: unlock, return the error
TxGiveUp ==
  /\ tpc = "waiting"
  /\ ~WaitRetries(tattempts)
  /\ cloneMu' = DeferredUnlock(cloneMu, "ErrGivingUp")
  /\ terr' = "ErrGivingUp"
  /\ tpc' = "returned"
  /\ UNCHANGED <<committed, txview, ntx, ntxSess, boundTx, orphans, tattempts, handle,
                 nwrites, fnres, closes, tpre>>

\* fn writes through the handle (the clone): inside the transaction when the
\* clone has it bound, directly on the session (auto-commit) otherwise
TxWrite(k, v) ==
  /\ tpc = "fn"
  /\ nwrites < MaxWrites
  /\ nwrites' = nwrites + 1
  /\ IF boundTx["clone"]
     THEN txview' = [txview EXCEPT ![k] = v] /\ UNCHANGED committed
     ELSE committed' = [committed EXCEPT ![k] = v] /\ UNCHANGED txview
  /\ UNCHANGED <<ntx, ntxSess, boundTx, cloneMu, orphans, tpc, tattempts, handle, fnres,
                 terr, closes, tpre>>

\* fn returns nil or an error, or panics
TxFnEnds(r) ==
  /\ tpc = "fn"
  /\ fnres' = r
  /\ tpc' = "closing"
  /\ UNCHANGED <<committed, txview, ntx, ntxSess, boundTx, cloneMu, orphans, tattempts,
                 handle, nwrites, terr, closes, tpre>>

\* RunTx closes the transaction through the handle and returns (or unwinds)
TxClose ==
  /\ tpc = "closing"
  /\ LET what == RunTxClose(fnres)
         has == boundTx["clone"] /\ ntx = "open"
     IN  /\ closes' = [commit |-> closes.commit + (IF what = "commit" THEN 1 ELSE 0),
                       rollback |-> closes.rollback + (IF what = "rollback" THEN 1 ELSE 0)]
         /\ ntx' = IF ~has THEN ntx
                   ELSE IF what = "commit" THEN "committed"
                   ELSE IF what = "rollback" THEN "rolledback" ELSE ntx
         /\ committed' = IF has /\ what = "commit" THEN txview ELSE committed
  /\ terr' = fnres
  /\ tpc' = "returned"
  /\ UNCHANGED <<txview, ntxSess, boundTx, cloneMu, orphans, tattempts, handle,
                 nwrites, fnres, tpre>>

(***************************************************************************)
(* mssql/collection.go: table.Insert.                                      *)
(***************************************************************************)
\* The table's columns, in the order sqlbuilder.Map lists them.
ColumnOrder == <<"a", "b", "id">>
Columns == {ColumnOrder[i] : i \in 1..Len(ColumnOrder)}

\* Values an item carries in a column (nil or a value), and values the
\* backend generates.
NilVal == "nil"
ItemVals == {NilVal, "v1"}
GenVals == {"g1", "g2"}

\* An item: a map or struct with some of the columns.
Items == UNION {[cs -> ItemVals] : cs \in SUBSET Columns}

\* The item has a non-nil value in column c.
CarriesValue(item, c) == c \in DOMAIN item /\ item[c] # NilVal

\* t.BaseCollection.PrimaryKeys() of the tables modelled: no key, a single
\* key, a compound key.
PKeyChoices == {<< >>, <<"id">>, <<"a", "b">>}

EmptyMap == [k \in {} |-> NilVal]

\* Insert's first return value: nil, a bare value, or a db.Cond map.
NilResult == [tag |-> "nil"]
ValueResult(v) == [tag |-> "value", v |-> v]
MapResult(m) == [tag |-> "map", m |-> m]

\* collection.go:65  sqlbuilder.Map(item, nil): the column names, in order
ColumnNames(item) == SelectSeq(ColumnOrder, LAMBDA c : c \in DOMAIN item)

\* collection.go:65  sqlbuilder.Map(item, nil): the column values, in order
ColumnValues(item) ==
  LET names == ColumnNames(item)
  IN  [i \in 1..Len(names) |-> item[names[i]]]

\* A hasKeys that is satisfied by a nil value in a key column.
HasKeysAnyValue(columnNames, columnValues, pk) ==
  \E i \in 1..Len(columnNames), j \in 1..Len(pk) : pk[j] = columnNames[i]

\* collection.go:72-82  hasKeys: some column of the item is a primary key and
\* holds a non-nil value
HasKeys(columnNames, columnValues, pk) ==
  \E i \in 1..Len(columnNames), j \in 1..Len(pk) :
    pk[j] = columnNames[i] /\ columnValues[i] # NilVal

\* A restore that is skipped when the insert failed.
RunsDeferredOnSuccess(registered, err) == registered /\ err = "nil"

\* collection.go:111  defer t.d.Exec("SET IDENTITY_INSERT ... OFF"): once
\* registered it runs when Insert returns, whatever Insert returns
RunsDeferred(registered, err) == registered

\* A result that always wraps the keys in a map.
InsertResultAlwaysMap(pk, keyMap) == MapResult(keyMap)

\* collection.go:135-140  a single key is returned bare, a compound key as the
\* map
InsertResult(pk, keyMap) ==
  IF Cardinality(DOMAIN keyMap) = 1
  THEN ValueResult(keyMap[pk[1]])
  ELSE MapResult(keyMap)

\* Returning what was read before the read failed.
ReadErrorResultPartial(keyMap) == MapResult(keyMap)

\* collection.go:130-132  the read of the returned keys failed: return nil, err
ReadErrorResult(keyMap) == NilResult

\* A detection whose failure is remembered as "no identity column".
RememberedDespiteError(old, outcome, count) ==
  IF outcome = "ok" /\ count > 0 THEN "true" ELSE "false"

\* collection.go:89-103  t.hasIdentityColumn after the detection: the query
\* or scan error returns before line 103 and leaves it as it was; otherwise it
\* is set to identityColumns > 0
Remembered(old, outcome, count) ==
  IF outcome = "ok"
  THEN IF count > 0 THEN "true" ELSE "false"
  ELSE old

IProcs == 1..NInserters

VARIABLES
  pKey,              \* the table's primary-key columns (BaseCollection.PrimaryKeys)
  identityColumns,   \* backend: COUNT(1) FROM sys.identity_columns for the table
  hasIdentityColumn, \* t.hasIdentityColumn: "unset" (nil), "true", "false"
  identityInsert,    \* backend session: IDENTITY_INSERT is ON for the table
  ipc,               \* ipc[p]: position of caller p inside Insert
  iitem,             \* iitem[p]: the item being inserted
  ihasKeys,          \* ihasKeys[p]: the local hasKeys
  idefer,            \* idefer[p]: the deferred OFF: "none", "pending", "ran"
  ilog,              \* ilog[p]: statements the call sent to the backend, in order
  ikeyMap,           \* ikeyMap[p]: the local keyMap
  ires,              \* ires[p]: the first return value
  ierr,              \* ierr[p]: the returned error ("none" until decided, "nil")
  idet               \* history, per table instance: detections that succeeded,
                     \* and whether one failed

insVars == <<pKey, identityColumns, hasIdentityColumn, identityInsert, ipc, iitem,
             ihasKeys, idefer, ilog, ikeyMap, ires, ierr, idet>>

\* collection.go:46-53  newTable: hasIdentityColumn is nil; the table has any
\* of the key shapes and may have an identity column
InsertInit ==
  /\ pKey \in PKeyChoices
  /\ identityColumns \in {0, 1}
  /\ hasIdentityColumn = "unset"
  /\ identityInsert = FALSE
  /\ ipc = [p \in IProcs |-> "idle"]
  /\ iitem = [p \in IProcs |-> EmptyMap]
  /\ ihasKeys = [p \in IProcs |-> FALSE]
  /\ idefer = [p \in IProcs |-> "none"]
  /\ ilog = [p \in IProcs |-> << >>]
  /\ ikeyMap = [p \in IProcs |-> EmptyMap]
  /\ ires = [p \in IProcs |-> NilResult]
  /\ ierr = [p \in IProcs |-> "none"]
  /\ idet = [ok |-> 0, failed |-> FALSE]

\* A statement sent to the backend and whether it succeeded.
Stmt(what, ok) == [stmt |-> what, ok |-> ok]

\* A return statement `return r, e`: the results are set, deferred calls are
\* still to run.
Returns(p, r, e) ==
  /\ ires' = [ires EXCEPT ![p] = r]
  /\ ierr' = [ierr EXCEPT ![p] = e]
  /\ ipc' = [ipc EXCEPT ![p] = "unwinding"]

\* collection.go:64  Insert(item) is called
InsertCall(p, item) ==
  /\ ipc[p] \in {"idle", "returned"}
  /\ ipc' = [ipc EXCEPT ![p] = "called"]
  /\ iitem' = [iitem EXCEPT ![p] = item]
  /\ ihasKeys' = [ihasKeys EXCEPT ![p] = FALSE]
  /\ idefer' = [idefer EXCEPT ![p] = "none"]
  /\ ilog' = [ilog EXCEPT ![p] = << >>]
  /\ ikeyMap' = [ikeyMap EXCEPT ![p] = EmptyMap]
  /\ ires' = [ires EXCEPT ![p] = NilResult]
  /\ ierr' = [ierr EXCEPT ![p] = "none"]
  /\ UNCHANGED <<pKey, identityColumns, idet, hasIdentityColumn, identityInsert>>

\* collection.go:65-68  sqlbuilder.Map fails: return nil, err
InsertMapFails(p) ==
  /\ ipc[p] = "called"
  /\ Returns(p, NilResult, "ErrMap")
  /\ UNCHANGED <<pKey, identityColumns, idet, hasIdentityColumn, identityInsert, iitem,
                 ihasKeys, idefer, ilog, ikeyMap>>

\* collection.go:65-84  Map succeeds; pKey is read; hasKeys is computed
InsertKeys(p) ==
  /\ ipc[p] = "called"
  /\ LET hk == HasKeys(ColumnNames(iitem[p]), ColumnValues(iitem[p]), pKey)
     IN  /\ ihasKeys' = [ihasKeys EXCEPT ![p] = hk]
         /\ ipc' = [ipc EXCEPT ![p] = IF hk THEN "detect" ELSE "build"]
  /\ UNCHANGED <<pKey, identityColumns, idet, hasIdentityColumn, identityInsert, iitem,
                 idefer, ilog, ikeyMap, ires, ierr>>

\* collection.go:85-104  hasIdentityColumn is nil: query sys.identity_columns
\* and scan the count; an error of either returns nil, err
InsertDetect(p, outcome) ==
  /\ ipc[p] = "detect"
  /\ hasIdentityColumn = "unset"
  /\ ilog' = [ilog EXCEPT ![p] = Append(@, Stmt("DETECT", outcome = "ok"))]
  /\ hasIdentityColumn' = Remembered(hasIdentityColumn, outcome, identityColumns)
  /\ idet' = IF outcome = "ok"
             THEN [idet EXCEPT !.ok = @ + 1]
             ELSE [idet EXCEPT !.failed = TRUE]
  /\ IF outcome = "ok"
     THEN /\ ipc' = [ipc EXCEPT ![p] = "toggle"]
          /\ UNCHANGED <<ires, ierr>>
     ELSE Returns(p, NilResult, outcome)
  /\ UNCHANGED <<pKey, identityColumns, identityInsert, iitem, ihasKeys, idefer,
                 ikeyMap>>

\* collection.go:85  hasIdentityColumn is already known
InsertDetectKnown(p) ==
  /\ ipc[p] = "detect"
  /\ hasIdentityColumn # "unset"
  /\ ipc' = [ipc EXCEPT ![p] = "toggle"]
  /\ UNCHANGED <<pKey, identityColumns, idet, hasIdentityColumn, identityInsert, iitem,
                 ihasKeys, idefer, ilog, ikeyMap, ires, ierr>>

\* collection.go:106-112  the table has an identity column: SET IDENTITY_INSERT
\* ON; on error return nil, err; else register the deferred OFF
InsertToggleOn(p, ok) ==
  /\ ipc[p] = "toggle"
  /\ hasIdentityColumn = "true"
  /\ ilog' = [ilog EXCEPT ![p] = Append(@, Stmt("ON", ok))]
  /\ IF ok
     THEN /\ identityInsert' = TRUE
          /\ idefer' = [idefer EXCEPT ![p] = "pending"]
          /\ ipc' = [ipc EXCEPT ![p] = "build"]
          /\ UNCHANGED <<ires, ierr>>
     ELSE /\ Returns(p, NilResult, "ErrOn")
          /\ UNCHANGED <<identityInsert, idefer>>
  /\ UNCHANGED <<pKey, identityColumns, idet, hasIdentityColumn, iitem, ihasKeys, ikeyMap>>

\* collection.go:106  no identity column: nothing to toggle
InsertNoToggle(p) ==
  /\ ipc[p] = "toggle"
  /\ hasIdentityColumn = "false"
  /\ ipc' = [ipc EXCEPT ![p] = "build"]
  /\ UNCHANGED <<pKey, identityColumns, idet, hasIdentityColumn, identityInsert, iitem,
                 ihasKeys, idefer, ilog, ikeyMap, ires, ierr>>

\* collection.go:115-125  no primary key: q.Exec(); return nil, err or nil, nil
InsertExecNoKeys(p, ok) ==
  /\ ipc[p] = "build"
  /\ Len(pKey) < 1
  /\ ilog' = [ilog EXCEPT ![p] = Append(@, Stmt("INSERT", ok))]
  /\ Returns(p, NilResult, IF ok THEN "nil" ELSE "ErrExec")
  /\ UNCHANGED <<pKey, identityColumns, idet, hasIdentityColumn, identityInsert, iitem,
                 ihasKeys, idefer, ikeyMap>>

\* The row the backend returns for RETURNING pKey: the explicit key values of
\* the item, generated values for the others.
ReturnedRow(item, gen) ==
  [k \in {pKey[j] : j \in 1..Len(pKey)} |->
     IF k \in DOMAIN item /\ item[k] # NilVal THEN item[k] ELSE gen[k]]

\* collection.go:127-140  q.Returning(pKey...).Iterator().One(&keyMap) succeeds
InsertReadKeys(p, gen) ==
  /\ ipc[p] = "build"
  /\ Len(pKey) >= 1
  /\ ilog' = [ilog EXCEPT ![p] = Append(@, Stmt("INSERT", TRUE))]
  /\ LET row == ReturnedRow(iitem[p], gen)
     IN  /\ ikeyMap' = [ikeyMap EXCEPT ![p] = row]
         /\ Returns(p, InsertResult(pKey, row), "nil")
  /\ UNCHANGED <<pKey, identityColumns, idet, hasIdentityColumn, identityInsert, iitem,
                 ihasKeys, idefer>>

\* collection.go:130-132  One(&keyMap) fails, having filled the keys in `got`
InsertReadFails(p, gen, got) ==
  /\ ipc[p] = "build"
  /\ Len(pKey) >= 1
  /\ ilog' = [ilog EXCEPT ![p] = Append(@, Stmt("INSERT", FALSE))]
  /\ LET row == ReturnedRow(iitem[p], gen)
         part == [k \in got |-> row[k]]
     IN  /\ ikeyMap' = [ikeyMap EXCEPT ![p] = part]
         /\ Returns(p, ReadErrorResult(part), "ErrRead")
  /\ UNCHANGED <<pKey, identityColumns, idet, hasIdentityColumn, identityInsert, iitem,
                 ihasKeys, idefer>>

\* collection.go:111  the deferred SET IDENTITY_INSERT OFF runs as Insert
\* returns; its result is dropped
InsertDeferredOff(p, ok) ==
  /\ ipc[p] = "unwinding"
  /\ RunsDeferred(idefer[p] = "pending", ierr[p])
  /\ idefer[p] # "ran"
  /\ ilog' = [ilog EXCEPT ![p] = Append(@, Stmt("OFF", ok))]
  /\ identityInsert' = IF ok THEN FALSE ELSE identityInsert
  /\ idefer' = [idefer EXCEPT ![p] = "ran"]
  /\ UNCHANGED <<pKey, identityColumns, idet, hasIdentityColumn, ipc, iitem, ihasKeys,
                 ikeyMap, ires, ierr>>

\* Insert returns to its caller: no deferred call is left to run
InsertReturn(p) ==
  /\ ipc[p] = "unwinding"
  /\ ~(RunsDeferred(idefer[p] = "pending", ierr[p]) /\ idefer[p] # "ran")
  /\ ipc' = [ipc EXCEPT ![p] = "returned"]
  /\ UNCHANGED <<pKey, identityColumns, idet, hasIdentityColumn, identityInsert, iitem,
                 ihasKeys, idefer, ilog, ikeyMap, ires, ierr>>

\* The key columns of the table.
PKeySet == {pKey[j] : j \in 1..Len(pKey)}

(***************************************************************************)
(* postgresql/database.go: ConvertValues.                                  *)
(*                                                                         *)
(* A value is its dynamic Go type and the data it carries.  The slice the  *)
(* caller passes and the slice the function ranges over share one backing  *)
(* array, cvvalues; the function returns that same slice.                  *)
(***************************************************************************)
\* Dynamic types of the arguments: one handled by pq, one that already has a
\* scanner/valuer, a pointer to a slice, a slice and a map.
ArgTypes ==
  {"string", "*Int64Array", "*[]int64", "[]int64", "map[string]interface{}"}

\* The data an argument carries.
ArgData == {"d1", "d2"}

ArgValues == [type : ArgTypes, data : ArgData]

\* The slices of at most n elements of S.
SeqsOver(S, n) == UNION {[1..k -> S] : k \in 0..n}

\* The type switch of the loop body: what is assigned to values[i], or the
\* value itself where the case assigns nothing.
ConvertValue(v) ==
  CASE v.type = "string" -> v
    [] v.type = "*Int64Array" -> v
    [] v.type = "*[]int64" -> [type |-> "*Int64Array", data |-> v.data]
    [] v.type = "[]int64" -> [type |-> "*Int64Array", data |-> v.data]
    [] v.type = "map[string]interface{}" ->
         [type |-> "*JSONBMap", data |-> v.data]

VARIABLES cvpc, cvvalues, cvarg, cvi, cvret

convVars == <<cvpc, cvvalues, cvarg, cvi, cvret>>

ConvInit ==
  /\ cvpc = "idle"
  /\ cvvalues = << >>
  /\ cvarg = << >>
  /\ cvi = 0
  /\ cvret = << >>

\* ConvertValues(values): the caller's slice is vals; cvarg remembers what it
\* held when the call was made.
ConvertCall(vals) ==
  /\ cvpc \in {"idle", "returned"}
  /\ cvpc' = "loop"
  /\ cvvalues' = vals
  /\ cvarg' = vals
  /\ cvi' = 1
  /\ cvret' = << >>

\* One iteration of for i := range values.
ConvertStep ==
  /\ cvpc = "loop"
  /\ cvi <= Len(cvvalues)
  /\ cvvalues' = [cvvalues EXCEPT ![cvi] = ConvertValue(cvvalues[cvi])]
  /\ cvi' = cvi + 1
  /\ UNCHANGED <<cvpc, cvarg, cvret>>

\* return values: the result is the slice that was passed in.
ConvertReturn ==
  /\ cvpc = "loop"
  /\ cvi > Len(cvvalues)
  /\ cvpc' = "returned"
  /\ cvret' = cvvalues
  /\ cvi' = 0
  /\ UNCHANGED <<cvvalues, cvarg>>

(***************************************************************************)
(* postgresql/database.go: newDatabase and clone.                          *)
(*                                                                         *)
(* A database struct embeds its guard (mu sync.Mutex) by value: the guard  *)
(* of a struct is named by the struct it lives in.  Struct 0 is the        *)
(* session the program opened; the others are allocated by clone.          *)
(***************************************************************************)
DBIds == 0..MaxClones

\* A slot no database struct lives in.
NoDB ==
  [state |-> "free", connURL |-> NilURL, mu |-> 0, parent |-> 0,
   checkConn |-> FALSE]

\* newDatabase(settings): a struct with these settings whose guard is its own
\* zero-valued mutex.
NewDatabase(settings, id) ==
  [state |-> "building", connURL |-> settings, mu |-> id, parent |-> id,
   checkConn |-> FALSE]

\* clone := newDatabase(d.connURL)
CloneSharesGuard(d, id) == [NewDatabase(d.connURL, id) EXCEPT !.mu = d.mu]
CloneStruct(d, id) == NewDatabase(d.connURL, id)

VARIABLES cdb, muHeld, holders, clpc, clcur, clsrc, clpre, clres

cloneVars == <<cdb, muHeld, holders, clpc, clcur, clsrc, clpre, clres>>

CloneInit ==
  /\ cdb \in {[i \in DBIds |->
                 IF i = 0 THEN [NewDatabase(u, 0) EXCEPT !.state = "live"]
                 ELSE NoDB] : u \in URLs}
  /\ muHeld = [i \in DBIds |-> FALSE]
  /\ holders = {}
  /\ clpc = "idle"
  /\ clcur = 0
  /\ clsrc = 0
  /\ clpre = NoDB
  /\ clres = "none"

\* The structs callers hold.
LiveDBs == {i \in DBIds : cdb[i].state = "live"}

\* d.clone(ctx, checkConn) up to the call of NewClone: the new struct is
\* allocated.  clpre remembers the struct cloned as it was at the call.
CloneNew(d, checkConn) ==
  /\ clpc \in {"idle", "returned"}
  /\ d \in LiveDBs
  /\ \E id \in DBIds :
       /\ cdb[id].state = "free"
       /\ \A j \in DBIds : cdb[j].state = "free" => id <= j
       /\ cdb' = [cdb EXCEPT ![id] = [CloneStruct(cdb[d], id) EXCEPT
                                        !.parent = d, !.checkConn = checkConn]]
       /\ muHeld' = [muHeld EXCEPT ![id] = IF cdb'[id].mu = id THEN FALSE ELSE @]
       /\ clcur' = id
  /\ clsrc' = d
  /\ clpre' = cdb[d]
  /\ clpc' = "new"
  /\ clres' = "none"
  /\ UNCHANGED holders

\* NewClone returns: with an error the clone is dropped and clone returns
\* (nil, err); otherwise the clone is returned.
CloneFinish(ok) ==
  /\ clpc = "new"
  /\ clpc' = "returned"
  /\ IF ok
       THEN /\ cdb' = [cdb EXCEPT ![clcur].state = "live"]
            /\ clres' = "clone"
       ELSE /\ cdb' = [cdb EXCEPT ![clcur] = NoDB]
            /\ clres' = "err"
  /\ UNCHANGED <<muHeld, holders, clcur, clsrc, clpre>>

\* clone.mu.Lock() by the NewDatabaseTx that made clone c; it blocks while
\* the mutex is held.
GuardLock(c) ==
  /\ c \in LiveDBs
  /\ cdb[c].checkConn
  /\ c \notin holders
  /\ ~muHeld[cdb[c].mu]
  /\ muHeld' = [muHeld EXCEPT ![cdb[c].mu] = TRUE]
  /\ holders' = holders \cup {c}
  /\ UNCHANGED <<cdb, clpc, clcur, clsrc, clpre, clres>>

\* defer clone.mu.Unlock()
GuardUnlock(c) ==
  /\ c \in holders
  /\ muHeld' = [muHeld EXCEPT ![cdb[c].mu] = FALSE]
  /\ holders' = holders \ {c}
  /\ UNCHANGED <<cdb, clpc, clcur, clsrc, clpre, clres>>

(***************************************************************************)
(* postgresql/database.go: CompileStatement.                               *)
(*                                                                         *)
(* SQL text is a list of tokens: literal text, the neutral placeholder "?" *)
(* the compiler emits, or a numbered placeholder "$n".                     *)
(***************************************************************************)
TextTok == [kind |-> "text", n |-> 0]
MarkTok == [kind |-> "?", n |-> 0]
DollarTok(k) == [kind |-> "$", n |-> k]

\* The statements handed to CompileStatement, by the text they compile to.
Stmts == SeqsOver({TextTok, MarkTok}, MaxTokens)

\* Nothing was returned, nothing was executed.
NoReturn == [set |-> FALSE, query |-> << >>, args |-> << >>]
Returned(query, args) == [set |-> TRUE, query |-> query, args |-> args]

\* stmt.Compile(template): the compiled text, or an error together with
\* whatever part of the text had been rendered.
CompileResults(stmt) ==
  {[text |-> stmt, err |-> "nil"]} \cup
  {[text |-> SubSeq(stmt, 1, k), err |-> "CompileError"] : k \in 0..Len(stmt)}

\* The number of placeholders among the first i tokens.
RECURSIVE MarksUpTo(_, _)
MarksUpTo(text, i) ==
  IF i = 0 THEN 0
  ELSE MarksUpTo(text, i - 1) + (IF text[i].kind = "?" THEN 1 ELSE 0)

\* sqlbuilder.Preprocess followed by sqladapter.ReplaceWithDollarSign: the
\* k-th "?" of the compiled text becomes "$k".
ReplaceWithDollarSign(text) ==
  [i \in 1..Len(text) |->
     IF text[i].kind = "?" THEN DollarTok(MarksUpTo(text, i)) ELSE text[i]]

\* if err != nil
CompileFailedNever(err) == FALSE
CompileFailed(err) == err # "nil"

VARIABLES cspc, csstmt, csargs, cscompiled, csret, csexec

compVars == <<cspc, csstmt, csargs, cscompiled, csret, csexec>>

NotCompiled == [text |-> << >>, err |-> "nil"]

CompInit ==
  /\ cspc = "idle"
  /\ csstmt = << >>
  /\ csargs = << >>
  /\ cscompiled = NotCompiled
  /\ csret = NoReturn
  /\ csexec = NoReturn

\* CompileStatement(stmt, args) is called for a statement about to execute.
CompileCall(stmt, args) ==
  /\ cspc \in {"idle", "panicked", "executed"}
  /\ cspc' = "called"
  /\ csstmt' = stmt
  /\ csargs' = args
  /\ cscompiled' = NotCompiled
  /\ csret' = NoReturn
  /\ csexec' = NoReturn

\* compiled, err := stmt.Compile(template)
CompileRun(r) ==
  /\ cspc = "called"
  /\ r \in CompileResults(csstmt)
  /\ cscompiled' = r
  /\ cspc' = "compiled"
  /\ UNCHANGED <<csstmt, csargs, csret, csexec>>

\* panic(err.Error()): the call does not return.
CompilePanic ==
  /\ cspc = "compiled"
  /\ CompileFailed(cscompiled.err)
  /\ cspc' = "panicked"
  /\ UNCHANGED <<csstmt, csargs, cscompiled, csret, csexec>>

\* return sqladapter.ReplaceWithDollarSign(query), args
CompileReturn ==
  /\ cspc = "compiled"
  /\ ~CompileFailed(cscompiled.err)
  /\ csret' = Returned(ReplaceWithDollarSign(cscompiled.text), csargs)
  /\ cspc' = "returned"
  /\ UNCHANGED <<csstmt, csargs, cscompiled, csexec>>

\* The caller hands the returned text and arguments to the native client.
NativeExec ==
  /\ cspc = "returned"
  /\ csexec' = csret
  /\ cspc' = "executed"
  /\ UNCHANGED <<csstmt, csargs, cscompiled, csret>>

(***************************************************************************)
(* postgresql/database.go: TableExists.                                    *)
(***************************************************************************)
\* Names a table of the session's catalog may have.
TableNames == {"t1", "t2", "t3"}

\* q.Iterator(): the iterator over the rows of information_schema.tables
\* that match the name, or an iterator that carries the error of a query that
\* could not be executed.
QueryIterator(tables, name, ok) ==
  IF ok
  THEN [err |-> "nil", rows |-> IF name \in tables THEN <<name>> ELSE << >>]
  ELSE [err |-> "ErrQuery", rows |-> << >>]

\* iter.Next(): a row was fetched; false at the end of the rows and after an
\* error.
IterNext(iter) == iter.err = "nil" /\ iter.rows # << >>

NoIterator == [err |-> "nil", rows |-> << >>]

VARIABLES tables, tepc, tename, teexisted, teiter, teres

teVars == <<tables, tepc, tename, teexisted, teiter, teres>>

TableExistsInit ==
  /\ tables \in SUBSET TableNames
  /\ tepc = "idle"
  /\ tename = "t1"
  /\ teexisted = FALSE
  /\ teiter = NoIterator
  /\ teres = "none"

\* Another client creates or drops a table between two calls.
CatalogChange(name) ==
  /\ tepc \in {"idle", "returned"}
  /\ tables' = IF name \in tables THEN tables \ {name} ELSE tables \cup {name}
  /\ UNCHANGED <<tepc, tename, teexisted, teiter, teres>>

\* TableExists(name) builds the query.
TableExistsCall(name) ==
  /\ tepc \in {"idle", "returned"}
  /\ tepc' = "called"
  /\ tename' = name
  /\ teexisted' = FALSE
  /\ teiter' = NoIterator
  /\ teres' = "none"
  /\ UNCHANGED tables

\* iter := q.Iterator(): the query runs, or fails to; teexisted remembers
\* whether the table was there.
TableExistsQuery(ok) ==
  /\ tepc = "called"
  /\ teiter' = QueryIterator(tables, tename, ok)
  /\ teexisted' = (tename \in tables)
  /\ tepc' = "queried"
  /\ UNCHANGED <<tables, tename, teres>>

\* iter.Next() is true: scan the row; return the scan error, or nil.
TableExistsRow(scanOk) ==
  /\ tepc = "queried"
  /\ IterNext(teiter)
  /\ teres' = IF scanOk THEN "nil" ELSE "ErrScan"
  /\ tepc' = "returned"
  /\ UNCHANGED <<tables, tename, teexisted, teiter>>

\* iter.Next() is false: return db.ErrCollectionDoesNotExist.
TableExistsNoRow ==
  /\ tepc = "queried"
  /\ ~IterNext(teiter)
  /\ teres' = "ErrCollectionDoesNotExist"
  /\ tepc' = "returned"
  /\ UNCHANGED <<tables, tename, teexisted, teiter>>

(***************************************************************************)
(* Specifications: one per part; the other parts do not move.              *)
(***************************************************************************)
\* The state of the hooks of the PostgreSQL session.
pgVars == <<convVars, cloneVars, compVars, teVars>>

vars == <<hashVars, openVars, txVars, insVars, pgVars>>

\* The fragments of the parts that do not use them.
HashIdle ==
  /\ HashInit
  /\ kind = [f \in Frags |-> "*exql.Column"]
  /\ content = [f \in Frags |-> << >>]

\* The table of the parts that do not insert.
InsertIdle ==
  /\ InsertInit
  /\ pKey = << >>
  /\ identityColumns = 0

\* The session of the parts that do not clone it.
CloneIdle ==
  /\ CloneInit
  /\ cdb[0].connURL = "urlA"

\* The catalog of the parts that do not look at it.
TableExistsIdle ==
  /\ TableExistsInit
  /\ tables = {}

\* The hooks of the PostgreSQL session when nothing calls them.
PgIdle == ConvInit /\ CloneIdle /\ CompInit /\ TableExistsIdle

\* What a step of one part leaves alone.
OnlyHash == UNCHANGED <<openVars, txVars, insVars, pgVars>>
OnlyOpen == UNCHANGED <<hashVars, txVars, insVars, pgVars>>
OnlyTx == UNCHANGED <<hashVars, openVars, insVars, pgVars>>
OnlyInsert == UNCHANGED <<hashVars, openVars, txVars, pgVars>>
OnlyConvert ==
  UNCHANGED <<hashVars, openVars, txVars, insVars, cloneVars, compVars, teVars>>
OnlyClone ==
  UNCHANGED <<hashVars, openVars, txVars, insVars, convVars, compVars, teVars>>
OnlyCompile ==
  UNCHANGED <<hashVars, openVars, txVars, insVars, convVars, cloneVars, teVars>>
OnlyTableExists ==
  UNCHANGED <<hashVars, openVars, txVars, insVars, convVars, cloneVars, compVars>>

\* The single thread works on fragment 1; the other fragment is not used.
HashSeqInit ==
  /\ HashInit
  /\ kind[2] = "*exql.Column"
  /\ content[2] = << >>
  /\ OpenInit /\ TxInit /\ InsertIdle /\ PgIdle

\* A single thread: it hashes, mutates and resets fragment 1, one call after
\* the other.
HashSeqNext ==
  \/ HashLoad(1, 1) /\ OnlyHash
  \/ HashHit(1) /\ OnlyHash
  \/ HashCompute(1) /\ OnlyHash
  \/ HashStore(1) /\ OnlyHash
  \/ HashReturn(1) /\ OnlyHash
  \/ Between(1) /\ Reset(1) /\ OnlyHash
  \/ \E c \in Contents : Between(1) /\ Mutate(1, c) /\ OnlyHash

\* The two kinds are interchangeable: fragment 1 has the first one, fragment 2
\* the same kind or the other.
HashConcInit ==
  /\ HashInit
  /\ kind[1] = "*exql.Column"
  /\ OpenInit /\ TxInit /\ InsertIdle /\ PgIdle

\* Any number of threads hash unmutated fragments; nobody resets.
HashConcNext ==
  \/ \E t \in HThreads, f \in Frags : HashLoad(t, f) /\ OnlyHash
  \/ \E t \in HThreads : HashHit(t) /\ OnlyHash
  \/ \E t \in HThreads : HashCompute(t) /\ OnlyHash
  \/ \E t \in HThreads : HashStore(t) /\ OnlyHash
  \/ \E t \in HThreads : HashReturn(t) /\ OnlyHash

\* Threads hash fragment 1 while its builder mutates it once, in place, and
\* calls Reset; no lock orders Hash, the mutation and Reset.
HashRaceNext ==
  \/ \E t \in HThreads : HashLoad(t, 1) /\ OnlyHash
  \/ \E t \in HThreads : HashHit(t) /\ OnlyHash
  \/ \E t \in HThreads : HashCompute(t) /\ OnlyHash
  \/ \E t \in HThreads : HashStore(t) /\ OnlyHash
  \/ \E t \in HThreads : HashReturn(t) /\ OnlyHash
  \/ Reset(1) /\ OnlyHash
  \/ \E c \in Contents : ~hmut[1].mutated /\ Mutate(1, c) /\ OnlyHash

OpenSpecInit == HashIdle /\ OpenInit /\ TxInit /\ InsertIdle /\ PgIdle

\* One session is opened, and opened again.
OpenNext ==
  \/ \E u \in URLs \cup {NilURL} : OpenCall(u) /\ OnlyOpen
  \/ OpenMissingURL /\ OnlyOpen
  \/ OpenStore /\ OnlyOpen
  \/ OpenBind /\ OnlyOpen
  \/ \E a, b \in BOOLEAN : OpenAttempt(a, b) /\ OnlyOpen
  \/ OpenGiveUp /\ OnlyOpen
  \/ OpenReturn /\ OnlyOpen

TxSpecInit == HashIdle /\ OpenInit /\ TxInit /\ InsertIdle /\ PgIdle

\* Transactions are run on one session, one after the other.
TxNext ==
  \/ TxCall /\ OnlyTx
  \/ TxCloneFails /\ OnlyTx
  \/ TxCloneLock /\ OnlyTx
  \/ \E a, b \in BOOLEAN : TxAttempt(a, b) /\ OnlyTx
  \/ TxGiveUp /\ OnlyTx
  \/ \E k \in Keys, v \in Vals : TxWrite(k, v) /\ OnlyTx
  \/ \E r \in {"nil", "err", "panic"} : TxFnEnds(r) /\ OnlyTx
  \/ TxClose /\ OnlyTx

InsertSpecInit == HashIdle /\ OpenInit /\ TxInit /\ InsertInit /\ PgIdle

\* One caller inserts items into one table instance, one call after the other.
InsertSeqNext ==
  \/ \E item \in Items : InsertCall(1, item) /\ OnlyInsert
  \/ InsertMapFails(1) /\ OnlyInsert
  \/ InsertKeys(1) /\ OnlyInsert
  \/ \E o \in {"ok", "ErrQuery", "ErrScan"} : InsertDetect(1, o) /\ OnlyInsert
  \/ InsertDetectKnown(1) /\ OnlyInsert
  \/ \E ok \in BOOLEAN : InsertToggleOn(1, ok) /\ OnlyInsert
  \/ InsertNoToggle(1) /\ OnlyInsert
  \/ \E ok \in BOOLEAN : InsertExecNoKeys(1, ok) /\ OnlyInsert
  \/ \E gen \in [PKeySet -> GenVals] : InsertReadKeys(1, gen) /\ OnlyInsert
  \/ \E gen \in [PKeySet -> GenVals], got \in SUBSET PKeySet :
       InsertReadFails(1, gen, got) /\ OnlyInsert
  \/ \E ok \in BOOLEAN : InsertDeferredOff(1, ok) /\ OnlyInsert
  \/ InsertReturn(1) /\ OnlyInsert

ConvertSpecInit == HashIdle /\ OpenInit /\ TxInit /\ InsertIdle /\ PgIdle

\* ConvertValues is called on one argument slice after the other.
ConvertNext ==
  \/ \E vals \in SeqsOver(ArgValues, MaxArgs) : ConvertCall(vals) /\ OnlyConvert
  \/ ConvertStep /\ OnlyConvert
  \/ ConvertReturn /\ OnlyConvert

CloneSpecInit ==
  /\ HashIdle /\ OpenInit /\ TxInit /\ InsertIdle
  /\ ConvInit /\ CloneInit /\ CompInit /\ TableExistsIdle

\* WithContext (checkConn false) and NewDatabaseTx (checkConn true) clone the
\* session and its clones; each NewDatabaseTx locks the guard of its clone.
CloneNext ==
  \/ \E d \in DBIds, checkConn \in BOOLEAN : CloneNew(d, checkConn) /\ OnlyClone
  \/ \E ok \in BOOLEAN : CloneFinish(ok) /\ OnlyClone
  \/ \E c \in DBIds : GuardLock(c) /\ OnlyClone
  \/ \E c \in DBIds : GuardUnlock(c) /\ OnlyClone

CompileSpecInit == HashIdle /\ OpenInit /\ TxInit /\ InsertIdle /\ PgIdle

\* One statement after the other is compiled and, when CompileStatement
\* returns, executed.
CompileNext ==
  \/ \E stmt \in Stmts, args \in SeqsOver(ArgData, 1) :
       CompileCall(stmt, args) /\ OnlyCompile
  \/ \E r \in UNION {CompileResults(stmt) : stmt \in Stmts} :
       CompileRun(r) /\ OnlyCompile
  \/ CompilePanic /\ OnlyCompile
  \/ CompileReturn /\ OnlyCompile
  \/ NativeExec /\ OnlyCompile

TableExistsSpecInit ==
  /\ HashIdle /\ OpenInit /\ TxInit /\ InsertIdle
  /\ ConvInit /\ CloneIdle /\ CompInit /\ TableExistsInit

\* TableExists is called for one name after the other while the catalog
\* changes between the calls.
TableExistsNext ==
  \/ \E name \in TableNames : CatalogChange(name) /\ OnlyTableExists
  \/ \E name \in TableNames : TableExistsCall(name) /\ OnlyTableExists
  \/ \E ok \in BOOLEAN : TableExistsQuery(ok) /\ OnlyTableExists
  \/ \E scanOk \in BOOLEAN : TableExistsRow(scanOk) /\ OnlyTableExists
  \/ TableExistsNoRow /\ OnlyTableExists

\* A table with the single key "id", which is an identity column.
InsertConcInit ==
  /\ HashIdle /\ OpenInit /\ TxInit /\ PgIdle
  /\ InsertInit
  /\ pKey = <<"id">>
  /\ identityColumns = 1

\* Items with an explicit value for the key.
ExplicitKeyItems == {item \in Items : CarriesValue(item, "id")}

\* Several callers insert explicit-key items into the same table instance
\* over the same session at once; nothing in Insert orders their statements.
InsertConcNext ==
  \/ \E p \in IProcs, item \in ExplicitKeyItems :
       InsertCall(p, item) /\ OnlyInsert
  \/ \E p \in IProcs : InsertMapFails(p) /\ OnlyInsert
  \/ \E p \in IProcs : InsertKeys(p) /\ OnlyInsert
  \/ \E p \in IProcs, o \in {"ok", "ErrQuery", "ErrScan"} :
       InsertDetect(p, o) /\ OnlyInsert
  \/ \E p \in IProcs : InsertDetectKnown(p) /\ OnlyInsert
  \/ \E p \in IProcs, ok \in BOOLEAN : InsertToggleOn(p, ok) /\ OnlyInsert
  \/ \E p \in IProcs, gen \in [PKeySet -> GenVals] :
       InsertReadKeys(p, gen) /\ OnlyInsert
  \/ \E p \in IProcs, gen \in [PKeySet -> GenVals], got \in SUBSET PKeySet :
       InsertReadFails(p, gen, got) /\ OnlyInsert
  \/ \E p \in IProcs, ok \in BOOLEAN : InsertDeferredOff(p, ok) /\ OnlyInsert
  \/ \E p \in IProcs : InsertReturn(p) /\ OnlyInsert

SpecHashSeq == HashSeqInit /\ [][HashSeqNext]_vars

SpecHashConc == HashConcInit /\ [][HashConcNext]_vars

SpecHashRace == HashSeqInit /\ [][HashRaceNext]_vars

SpecOpen == OpenSpecInit /\ [][OpenNext]_vars

SpecTx == TxSpecInit /\ [][TxNext]_vars

SpecInsert == InsertSpecInit /\ [][InsertSeqNext]_vars

SpecInsertConc == InsertConcInit /\ [][InsertConcNext]_vars

SpecConvert == ConvertSpecInit /\ [][ConvertNext]_vars

SpecClone == CloneSpecInit /\ [][CloneNext]_vars

SpecCompile == CompileSpecInit /\ [][CompileNext]_vars

SpecTableExists == TableExistsSpecInit /\ [][TableExistsNext]_vars

(***************************************************************************)
(* Claims about exql/hash.go.                                              *)
(***************************************************************************)
\* The call of thread t has returned, and it began after the fragment's
\* populated slot saw a mutation and then a Reset.
AfterMutateReset(t) ==
  /\ hpc[t] = "returned"
  /\ hcase[t].mutated
  /\ hcase[t].reset
  /\ hcase[t].pre # ""

\* C1: single thread, slot populated by an earlier Hash: after the content is
\* mutated and Reset is called, the next Hash returns (and stores) the
\* fingerprint of the current content, and does not return the pre-mutation
\* fingerprint, which the current content no longer has.
C1_ResetInvalidates ==
  \A t \in HThreads :
    AfterMutateReset(t) =>
      LET f == hfrag[t]
          now == Fingerprint(kind[f], content[f])
      IN  /\ hret[t] = now
          /\ slot[f] = StoredStr(now)
          /\ (hcase[t].pre # now => hret[t] # hcase[t].pre)

\* C1's case: a Hash that began after populate, mutate, Reset has returned,
\* and the pre-mutation fingerprint is stale.
C1_Witness ==
  /\ AfterMutateReset(1)
  /\ hcase[1].pre # Fingerprint(kind[hfrag[1]], content[hfrag[1]])
  /\ hret[1] # ""

\* C2: two unmutated fragments of the same kind and equal content have the
\* same Hash, whatever their slots held; and every call on one fragment
\* returns what the first call on it returned.
C2_FingerprintStable ==
  /\ \A t, u \in HThreads :
       (/\ hpc[t] = "returned" /\ hpc[u] = "returned"
        /\ kind[hfrag[t]] = kind[hfrag[u]]
        /\ content[hfrag[t]] = content[hfrag[u]]) => hret[t] = hret[u]
  /\ \A t \in HThreads : hpc[t] = "returned" => hret[t] = hfirst[hfrag[t]]

\* C2's case: calls on two distinct instances with equal kind and content have
\* returned, one of them from a slot that was already populated.
C2_Witness ==
  /\ hpc[1] = "returned" /\ hpc[2] = "returned"
  /\ hfrag[1] # hfrag[2]
  /\ kind[1] = kind[2] /\ content[1] = content[2]
  /\ Len(content[1]) = MaxLen
  /\ hret[1] # ""
  /\ \E f \in Frags : IsHit(slot[f])

\* C3: threads hashing the same unmutated fragment concurrently: every call
\* returns the fragment's fingerprint, never an empty or different value, and
\* once anything is stored the slot holds that fingerprint.
C3_ConcurrentSame ==
  /\ \A t \in HThreads :
       hpc[t] = "returned" =>
         /\ hret[t] = Fingerprint(kind[hfrag[t]], content[hfrag[t]])
         /\ hret[t] # ""
         /\ slot[hfrag[t]] = StoredStr(hret[t])
  /\ \A f \in Frags :
       slot[f].set => slot[f] = StoredStr(Fingerprint(kind[f], content[f]))

\* C3's case: two threads both missed the empty slot of one fragment, both
\* computed and both stored (duplicate computation).
C3_Witness ==
  /\ hpc[1] = "stored" /\ hpc[2] = "stored"
  /\ hfrag[1] = hfrag[2]

(***************************************************************************)
(* Claims about postgresql/database.go: Tx.                                *)
(***************************************************************************)
\* Tx has returned (or unwound), and RunTx had obtained a transaction.
TxDone == tpc = "returned" /\ handle

C5_TxAtomic ==
  (TxDone /\ fnres = "err" /\ nwrites > 0) => committed = tpre

\* C5's case: the body made two writes that changed rows inside the
\* transaction, returned an error, and Tx has returned.
C5_Witness ==
  /\ TxDone
  /\ fnres = "err"
  /\ nwrites >= 2
  /\ \A k \in Keys : txview[k] # tpre[k]
  /\ ntx = "rolledback"

(***************************************************************************)
(* Claims about postgresql/database.go: Open.                              *)
(***************************************************************************)
\* Open was called with settings and has returned.
OpenDone == opc = "returned" /\ oarg # NilURL

\* C6: when the connect function fails N times and then succeeds, with N
\* below the retry budget, Open returns no error after exactly N+1
\* invocations; no invocation follows a success, and the wait gives up only
\* when the budget is spent.
C6_RetryThenSucceed ==
  /\ (opc = "waiting" /\ owait = "none") => oattempts = ofailures
  /\ OpenDone =>
       IF ofailures < RetryBudget
       THEN sess /\ oerr = "nil" /\ oattempts = ofailures + 1
       ELSE ~sess /\ oerr # "nil" /\ oattempts = RetryBudget

\* C6's case: the connect function failed on every attempt but the last one
\* the budget allows, and Open returned nil.
C6_Witness ==
  /\ OpenDone
  /\ ofailures = RetryBudget - 1
  /\ ofailures > 0
  /\ oattempts = RetryBudget
  /\ oerr = "nil"

\* C10: Open(nil) returns ErrMissingConnURL, leaves the stored settings and
\* the bound base session as they were and makes no connection attempt;
\* Open(settings) stores the settings before any attempt and returns exactly
\* what the connection wait returned.
C10_OpenNilAndStore ==
  /\ (opc = "returned" /\ oarg = NilURL) =>
       /\ oerr = "ErrMissingConnURL"
       /\ connURL = opre.url
       /\ base = opre.base
       /\ sess = opre.sess
       /\ oattempts = 0
  /\ (oarg = NilURL /\ opc # "idle") => oattempts = 0 /\ connURL = opre.url
  /\ (oarg # NilURL /\ opc \in {"stored", "waiting", "returned"}) => connURL = oarg
  /\ oattempts > 0 => connURL = oarg /\ oarg # NilURL
  /\ OpenDone => owait # "none" /\ oerr = owait

\* C10's case: Open(nil) has returned on a session that an earlier Open had
\* connected.
C10_Witness ==
  /\ opc = "returned"
  /\ oarg = NilURL
  /\ connURL # NilURL
  /\ sess
  /\ base > 0

(***************************************************************************)
(* Claims about mssql/collection.go: table.Insert.                         *)
(***************************************************************************)
\* Positions in the call's log at which statement `what` was sent.
Sent(p, what) == {i \in 1..Len(ilog[p]) : ilog[p][i].stmt = what}

\* The call sent SET IDENTITY_INSERT ON and it succeeded / failed.
OnSucceeded(p) == \E i \in Sent(p, "ON") : ilog[p][i].ok
OnFailed(p) == \E i \in Sent(p, "ON") : ~ilog[p][i].ok

\* C7: when SET IDENTITY_INSERT ON succeeded, OFF is executed exactly once
\* before Insert returns, after the insert statement was attempted, also when
\* the insert failed; when ON failed, Insert returns that error and executes
\* neither the insert nor OFF.
C7_IdentityInsertRestored ==
  \A p \in IProcs :
    /\ (ipc[p] = "returned" /\ OnSucceeded(p)) =>
         /\ Cardinality(Sent(p, "OFF")) = 1
         /\ Cardinality(Sent(p, "INSERT")) = 1
    /\ \A j \in Sent(p, "OFF") :
         /\ \E i \in Sent(p, "INSERT") : i < j
         /\ \E i \in Sent(p, "ON") : i < j /\ ilog[p][i].ok
    /\ Cardinality(Sent(p, "OFF")) <= 1
    /\ (ipc[p] \in {"unwinding", "returned"} /\ OnFailed(p)) =>
         /\ ierr[p] = "ErrOn"
         /\ ires[p] = NilResult
         /\ Sent(p, "INSERT") = {}
         /\ Sent(p, "OFF") = {}

\* C7's case: ON succeeded, the insert statement failed, OFF was executed and
\* Insert has returned the error.
C7_Witness ==
  /\ ipc[1] = "returned"
  /\ OnSucceeded(1)
  /\ \E i \in Sent(1, "INSERT") : ~ilog[1][i].ok
  /\ Sent(1, "OFF") # {}
  /\ ierr[1] \in {"ErrExec", "ErrRead"}

\* C8: a successful Insert returns nil for a table without primary key, the
\* key's value itself for a single primary key, and the map from each key
\* column to its value for a compound key.
C8_ResultShape ==
  \A p \in IProcs :
    (ipc[p] = "returned" /\ ierr[p] = "nil") =>
      IF Len(pKey) = 0 THEN ires[p] = NilResult
      ELSE IF Len(pKey) = 1
      THEN /\ ires[p] = ValueResult(ikeyMap[p][pKey[1]])
           /\ ires[p].v \in GenVals \cup (ItemVals \ {NilVal})
      ELSE /\ ires[p] = MapResult(ikeyMap[p])
           /\ DOMAIN ires[p].m = PKeySet
           /\ \A k \in PKeySet : ires[p].m[k] \in GenVals \cup (ItemVals \ {NilVal})

\* C8's case: an Insert into the table with the compound key has returned the
\* map, one value explicit and one generated.
C8_Witness ==
  /\ ipc[1] = "returned"
  /\ ierr[1] = "nil"
  /\ Len(pKey) = 2
  /\ ires[1].tag = "map"
  /\ ires[1].m[pKey[1]] \in GenVals
  /\ ires[1].m[pKey[2]] \notin GenVals

\* C9: an Insert that returns an error returns a nil result, whichever step
\* failed.
C9_NoResultWithError ==
  \A p \in IProcs :
    (ipc[p] \in {"unwinding", "returned"} /\ ierr[p] # "nil") =>
      /\ ierr[p] \in {"ErrMap", "ErrQuery", "ErrScan", "ErrOn", "ErrExec", "ErrRead"}
      /\ ires[p] = NilResult

\* C9's case: reading the returned keys failed after some keys had been read,
\* and Insert has returned.
C9_Witness ==
  /\ ipc[1] = "returned"
  /\ ierr[1] = "ErrRead"
  /\ DOMAIN ikeyMap[1] # {}


(***************************************************************************)
(* Claims about postgresql/database.go: ConvertValues.                     *)
(***************************************************************************)
\* C11: ConvertValues is pure: after the call the caller's slice holds the
\* same elements as before it, the converted values being found only in the
\* returned result.
C11_ConvertPure ==
  cvpc = "returned" =>
    /\ cvvalues = cvarg
    /\ cvret = [i \in 1..Len(cvarg) |-> ConvertValue(cvarg[i])]


(***************************************************************************)
(* Claims about postgresql/database.go: clone.                             *)
(***************************************************************************)
\* The structs clone has made and not dropped.
Clones == {c \in DBIds : cdb[c].state # "free" /\ cdb[c].parent # c}

\* C12: every clone has the connection settings of the session it was cloned
\* from and a guard of its own, distinct from the guard of every other
\* struct; a clone's guard is held only by the caller that locked that clone,
\* so a lock held on one struct keeps nobody from locking another; and the
\* session cloned has the settings and the guard it had before the call.
C12_CloneOwnGuard ==
  /\ \A c \in Clones :
       /\ cdb[c].connURL = cdb[cdb[c].parent].connURL
       /\ \A s \in DBIds \ {c} : cdb[s].state # "free" => cdb[s].mu # cdb[c].mu
       /\ muHeld[cdb[c].mu] <=> c \in holders
  /\ \A c \in LiveDBs :
       (cdb[c].checkConn /\ c \notin holders) => ENABLED GuardLock(c)
  /\ clpc \in {"new", "returned"} =>
       /\ cdb[clsrc] = clpre
       /\ clsrc \in holders <=> muHeld[clpre.mu]

\* C12's case: a clone and a clone of that clone are both in use and the
\* guards of both are held at once, neither having blocked the other.
C12_Witness ==
  \E c, e \in LiveDBs :
    /\ c # e /\ c # 0
    /\ cdb[e].parent = c
    /\ c \in holders /\ e \in holders
    /\ clpc = "returned" /\ clres = "clone" /\ clcur = e


(***************************************************************************)
(* Claims about postgresql/database.go: CompileStatement.                  *)
(***************************************************************************)
\* C13: when stmt.Compile reports an error, CompileStatement panics and
\* returns neither SQL text nor arguments, and nothing is handed to the
\* native client for that statement; what is returned and executed is the
\* rewritten text of a compile that succeeded.
C13_CompileErrorPanics ==
  /\ (cspc \in {"compiled", "panicked", "returned", "executed"}
        /\ cscompiled.err # "nil") =>
       /\ cspc \in {"compiled", "panicked"}
       /\ csret = NoReturn
       /\ csexec = NoReturn
  /\ cspc = "panicked" => cscompiled.err # "nil"
  /\ cspc \in {"returned", "executed"} =>
       /\ cscompiled = [text |-> csstmt, err |-> "nil"]
       /\ csret = Returned(ReplaceWithDollarSign(csstmt), csargs)
  /\ csexec.set => (cspc = "executed" /\ csexec = csret)

\* C13's case: the compile of a statement with placeholders failed after part
\* of its text was rendered, and CompileStatement has panicked.
C13_Witness ==
  /\ cspc = "panicked"
  /\ cscompiled.err = "CompileError"
  /\ \E i \in 1..Len(cscompiled.text) : cscompiled.text[i].kind = "?"
  /\ csargs # << >>


(***************************************************************************)
(* Claims about exql/hash.go under concurrent Hash, mutation and Reset.    *)
(***************************************************************************)
\* The call of thread t has returned, and it began after the fragment was
\* mutated and Reset was called; the fragment was not mutated again.
StartedAfterReset(t) ==
  /\ hpc[t] = "returned"
  /\ hcase[t].mutated
  /\ hcase[t].reset
  /\ hmut[hfrag[t]].mutated

\* C14: whatever the interleaving of Hash and Reset calls of different
\* threads on one slot, once a mutation followed by Reset has completed and no
\* further mutation occurs, every Hash call that starts afterwards returns
\* the fingerprint of the current content.
C14_NoStaleAfterReset ==
  \A t \in HThreads :
    StartedAfterReset(t) =>
      hret[t] = Fingerprint(kind[hfrag[t]], content[hfrag[t]])


(***************************************************************************)
(* Claims about mssql/collection.go: when Insert toggles IDENTITY_INSERT.  *)
(***************************************************************************)
\* Call p is over: its results are set.
InsertOver(p) == ipc[p] \in {"unwinding", "returned"}

\* The item of call p carries a non-nil value in a primary-key column.
CarriesKey(p) ==
  \E c \in DOMAIN iitem[p] : c \in PKeySet /\ iitem[p][c] # NilVal

\* sqlbuilder.Map turned the item of call p into columns and values.
Mapped(p) == InsertOver(p) /\ ierr[p] # "ErrMap"

\* For an item without a non-nil primary-key value, the call sent neither
\* the detection query nor any SET IDENTITY_INSERT.
NoToggleWithoutKey(p) ==
  ~CarriesKey(p) =>
    /\ Sent(p, "DETECT") = {}
    /\ Sent(p, "ON") = {}
    /\ Sent(p, "OFF") = {}

NewDatabaseTxReturned == tpc \in {"fn", "closing", "returned"}

\* C16: NewDatabaseTx returns a handle only when a native transaction was
\* begun on the clone's own session and BindTx on the clone succeeded; when
\* cloning fails, or beginning or binding fails until WaitForConnection gives
\* up, it returns an error and no handle, and no transaction is bound; the
\* session Tx was called on never has a transaction bound; the clone's guard
\* is held only while NewDatabaseTx begins and binds, and is released on
\* every return.
C16_TxHandleOnlyWhenBound ==
  /\ handle =>
       /\ NewDatabaseTxReturned
       /\ ntx # "none"
       /\ ntxSess = "clone"
       /\ boundTx["clone"]
  /\ (tpc = "returned" /\ ~handle) =>
       /\ terr \in {"err", "ErrGivingUp"}
       /\ fnres = "none"
       /\ ntx = "none"
       /\ ~boundTx["clone"]
  /\ ~boundTx["orig"]
  /\ cloneMu => tpc = "waiting"

\* C16's case: every attempt failed, one of them after the native transaction
\* had been begun, and NewDatabaseTx has returned the error with the guard
\* released.
C16_Witness ==
  /\ tpc = "returned"
  /\ ~handle
  /\ terr = "ErrGivingUp"
  /\ orphans > 0
  /\ tattempts = RetryBudget
  /\ ~cloneMu


(***************************************************************************)
(* Claims about postgresql/database.go: TableExists.                       *)
(***************************************************************************)
\* C17: TableExists returns the collection-does-not-exist error only when the
\* table was not in the catalog and nil only when it was; when the lookup
\* query itself fails, that failure is what TableExists returns.
C17_TableExistsErrors ==
  tepc = "returned" =>
    /\ teres = "ErrCollectionDoesNotExist" => (~teexisted /\ teiter.err = "nil")
    /\ teres = "nil" => teexisted
    /\ teiter.err # "nil" => teres = teiter.err


(***************************************************************************)
(* Claims about mssql/collection.go: concurrent explicit-key Inserts.      *)
(***************************************************************************)
\* Call p has executed its SET IDENTITY_INSERT ON with success and its insert
\* statement is the next statement it sends.
AboutToInsert(p) == ipc[p] = "build" /\ idefer[p] = "pending"

\* C18: explicit-key Inserts running concurrently on one identity-column
\* table over one session do not disturb each other: from a call's own
\* successful SET IDENTITY_INSERT ON until its insert statement executes, the
\* session's IDENTITY_INSERT setting stays ON; no other call's OFF takes
\* effect in between.
C18_ToggleIsolated ==
  \A p \in IProcs : AboutToInsert(p) => identityInsert


(***************************************************************************)
(* Claims about exql/hash.go: a populated slot.                            *)
(***************************************************************************)
\* C19: once the slot is populated, Hash returns what is stored without
\* looking at its argument: with no Reset in between, every Hash call returns
\* the fingerprint the first call computed, also after the content was
\* mutated, and the slot keeps holding it; only Reset empties the slot.
C19_PopulatedSlotWins ==
  \A f \in Frags :
    hfirst[f] # "" =>
      /\ slot[f] = StoredStr(hfirst[f])
      /\ \A t \in HThreads :
           (hpc[t] = "returned" /\ hfrag[t] = f) => hret[t] = hfirst[f]

\* C19's case: the content was mutated without a Reset after the slot had
\* been populated; a Hash call that began after the mutation has returned
\* the first fingerprint, which is not the fingerprint of the content now.
C19_Witness ==
  /\ hpc[1] = "returned"
  /\ hcase[1].mutated /\ ~hcase[1].reset
  /\ hcase[1].pre # ""
  /\ hret[1] = hcase[1].pre
  /\ hret[1] # Fingerprint(kind[hfrag[1]], content[hfrag[1]])


(***************************************************************************)
(* Claims about mssql/collection.go: the remembered identity detection.    *)
(***************************************************************************)
\* Call p is an explicit-key Insert that has passed the detection.
PastDetection(p) ==
  \/ ipc[p] = "toggle"
  \/ ipc[p] = "build" /\ ihasKeys[p]
  \/ InsertOver(p) /\ ihasKeys[p] /\ ierr[p] \notin {"ErrQuery", "ErrScan"}

\* C20: across sequential Insert calls on one table instance the detection
\* query completes successfully at most once; its result is remembered, is
\* the backend's answer, and every explicit-key Insert that gets past the
\* detection works with a remembered result; a detection whose query or scan
\* fails leaves nothing remembered, and the Insert it fails in executes no
\* toggle and no insert.
C20_DetectOnce ==
  /\ idet.ok <= 1
  /\ idet.ok = 1 <=> hasIdentityColumn # "unset"
  /\ hasIdentityColumn # "unset" =>
       (hasIdentityColumn = "true" <=> identityColumns > 0)
  /\ \A p \in IProcs :
       /\ PastDetection(p) => hasIdentityColumn # "unset"
       /\ Cardinality(Sent(p, "DETECT")) <= 1
       /\ (InsertOver(p) /\ ierr[p] \in {"ErrQuery", "ErrScan"}) =>
            /\ ilog[p] = <<Stmt("DETECT", FALSE)>>
            /\ ires[p] = NilResult
            /\ hasIdentityColumn = "unset"

\* C20's case: a detection failed, the detection of a later explicit-key
\* Insert succeeded, and a still later explicit-key Insert has toggled
\* IDENTITY_INSERT and inserted without running the detection.
C20_Witness ==
  /\ idet.failed
  /\ idet.ok = 1
  /\ ipc[1] = "returned"
  /\ ihasKeys[1]
  /\ Sent(1, "DETECT") = {}
  /\ OnSucceeded(1)
  /\ ierr[1] = "nil"

====
